---- MODULE Spec2Model ----
(***************************************************************************)
(* TechMart payment API (server.js): the POST /api/payments handler with   *)
(* its Redis merchant cache and SQL ledger, and the schema bootstrap       *)
(* createTablesIfNeeded run by every starting instance.                    *)
(*                                                                         *)
(* One action per segment of code between two awaits: the event loop runs  *)
(* each segment without interruption, and other requests, other instances  *)
(* and the passage of time interleave only at the awaits.                  *)
(*                                                                         *)
(* JavaScript values are written as tokens: "undefined" is a missing       *)
(* property, "" the empty string, "0" the number zero, "true"/"false" the  *)
(* booleans, anything else a truthy number or string.                      *)
(***************************************************************************)
EXTENDS Integers, Sequences, FiniteSets, TLC

\* ---------------------------------------------------------------- bounds
MaxRequests == 2
NumInstances == 3
TickSeconds == 150
MaxClock == 300

\* ------------------------------------------------------ program constants
CACHE_TTL == 300
FIRST_IDENTITY == 1
HTTP_CREATED == 201
HTTP_BAD_REQUEST == 400
HTTP_SERVER_ERROR == 500

Requests == 1..MaxRequests
Instances == 1..NumInstances
Merchants == {"M1", "M2"}

\* Request bodies: two complete ones, and one for each way a field can be
\* absent or empty.
Bodies ==
  { [amount |-> "10", currency |-> "USD", merchantId |-> "M1"],
    [amount |-> "25", currency |-> "EUR", merchantId |-> "M2"],
    [amount |-> "undefined", currency |-> "USD", merchantId |-> "M1"],
    [amount |-> "10", currency |-> "", merchantId |-> "M1"],
    [amount |-> "10", currency |-> "USD", merchantId |-> "undefined"] }

NoBody == [amount |-> "undefined", currency |-> "undefined", merchantId |-> "undefined"]

\* JavaScript's !v
Falsy(v) == v \in {"undefined", "null", "", "0", "false", "NaN"}

\* The validation test of the handler: !amount || !currency || !merchantId
MissingParams_NoMerchantCheck(b) == Falsy(b.amount) \/ Falsy(b.currency)
MissingParams(b) == Falsy(b.amount) \/ Falsy(b.currency) \/ Falsy(b.merchantId)

\* `merchant:${merchantId}`
CacheKey(m) == <<"merchant:", m>>
CacheKeys == {CacheKey(m) : m \in Merchants}

\* The object the handler serialises on a miss.
NewMerchantRecord_Invalid(t) == [valid |-> "false", checkedAt |-> t, checkCount |-> 1]
NewMerchantRecord(t) == [valid |-> "true", checkedAt |-> t, checkCount |-> 1]

\* A string held by the cache: JSON text of an object (json = TRUE) with the
\* three members, or text that is not JSON.
JSONStringify(o) ==
  [json |-> TRUE, valid |-> o.valid, checkedAt |-> o.checkedAt, checkCount |-> o.checkCount]
NotJSON == [json |-> FALSE, valid |-> "undefined", checkedAt |-> 0, checkCount |-> 0]
JSONParseThrows(s) == ~s.json
JSONParse(s) == [valid |-> s.valid, checkedAt |-> s.checkedAt, checkCount |-> s.checkCount]

\* A cache slot: absent, or a string with its expiry time.
NoEntry == [present |-> FALSE, value |-> NotJSON, expiresAt |-> 0]
Entry(s, exp) == [present |-> TRUE, value |-> s, expiresAt |-> exp]

\* redisClient.get: null (<<>>) for an absent key, else the string.
RedisGet(c, k) == IF c[k].present THEN <<c[k].value>> ELSE <<>>
\* redisClient.setEx(key, seconds, value) at time t
RedisSetEx_Milliseconds(c, k, seconds, s, t) == [c EXCEPT ![k] = Entry(s, t + (seconds \div 1000))]
RedisSetEx(c, k, seconds, s, t) == [c EXCEPT ![k] = Entry(s, t + seconds)]
\* Redis drops a key once its time to live has elapsed.
RedisExpire(c, t) ==
  [k \in DOMAIN c |-> IF c[k].present /\ c[k].expiresAt <= t THEN NoEntry ELSE c[k]]

\* INSERT INTO Payments (...) VALUES (@amount, @currency, @merchantId, 'COMPLETED', GETDATE())
PaymentRow(id, b, t) ==
  [PaymentId |-> id, Amount |-> b.amount, Currency |-> b.currency,
   MerchantId |-> b.merchantId, Status |-> "COMPLETED", CreatedAt |-> t]

\* Responses, one shape for all: members a response does not carry are
\* 0 / "undefined".
NoResponse == [status |-> 0, error |-> "", paymentId |-> 0, merchantId |-> "undefined"]
ParamsRequired ==
  [status |-> HTTP_BAD_REQUEST, error |-> "Parametres requis", paymentId |-> 0,
   merchantId |-> "undefined"]
MerchantInvalid(m) ==
  [status |-> HTTP_BAD_REQUEST, error |-> "Merchant invalide", paymentId |-> 0, merchantId |-> m]
PaymentError ==
  [status |-> HTTP_SERVER_ERROR, error |-> "Erreur traitement paiement", paymentId |-> 0,
   merchantId |-> "undefined"]
PaymentCreated(id, m) ==
  [status |-> HTTP_CREATED, error |-> "", paymentId |-> id, merchantId |-> m]

NoOps == [get |-> 0, setEx |-> 0, query |-> 0]

VARIABLES
  now,          \* wall clock, seconds
  cache,        \* Redis: key -> slot
  tableExists,  \* the Payments table (with its indexes) exists
  ledger,       \* rows of Payments, in insertion order
  nextId,       \* next IDENTITY value of Payments
  ipc,          \* instance -> position in startServer
  ddlError,     \* instance -> its CREATE TABLE failed: the table already existed
  tableCreates, \* number of CREATE TABLE statements that succeeded
  pc,           \* request -> position in the handler
  body,         \* request -> req.body
  merchantValid,\* request -> the handler's local merchantValid
  lookup,       \* request -> how the cache step went
  pending,      \* request -> the string passed to setEx
  ops,          \* request -> number of cache reads, cache writes, ledger writes issued
  rowsOf,       \* request -> PaymentIds of the rows its query inserted
  sqlOutcome,   \* request -> how the ledger step went
  res           \* request -> the response sent

vars == <<now, cache, tableExists, ledger, nextId, ipc, ddlError, tableCreates,
          pc, body, merchantValid, lookup, pending, ops, rowsOf, sqlOutcome,
          res>>

dbVars == <<tableExists, ledger, nextId, tableCreates>>
bootVars == <<ipc, ddlError>>
reqVars == <<pc, body, merchantValid, lookup, pending, ops, rowsOf, sqlOutcome, res>>

\* What the cache may hold for a merchant when the service starts: nothing,
\* or a record left by an earlier run or another writer.
PreexistingValues ==
  { JSONStringify([valid |-> "true", checkedAt |-> 0, checkCount |-> 1]),
    JSONStringify([valid |-> "false", checkedAt |-> 0, checkCount |-> 1]),
    NotJSON }
PreexistingSlots == {NoEntry} \cup {Entry(s, CACHE_TTL) : s \in PreexistingValues}

\* Everything but the cache contents and the startup positions.
InitRest ==
  /\ now = 0
  /\ tableExists \in BOOLEAN
  /\ ledger = <<>>
  /\ nextId = FIRST_IDENTITY
  /\ ddlError = [i \in Instances |-> FALSE]
  /\ tableCreates = 0
  /\ pc = [r \in Requests |-> "idle"]
  /\ body = [r \in Requests |-> NoBody]
  /\ merchantValid = [r \in Requests |-> "true"]
  /\ lookup = [r \in Requests |-> "none"]
  /\ pending = [r \in Requests |-> NotJSON]
  /\ ops = [r \in Requests |-> NoOps]
  /\ rowsOf = [r \in Requests |-> {}]
  /\ sqlOutcome = [r \in Requests |-> "none"]
  /\ res = [r \in Requests |-> NoResponse]

\* Process start: every instance is about to run startServer against a
\* database where Payments may or may not exist.
InitSchema ==
  /\ cache = [k \in CacheKeys |-> NoEntry]
  /\ ipc = [i \in Instances |-> "start"]
  /\ InitRest

\* Serving: startServer has reached app.listen in every instance. The table
\* may still be missing, because createTablesIfNeeded swallows its errors.
Init ==
  /\ cache \in [CacheKeys -> PreexistingSlots]
  /\ ipc = [i \in Instances |-> "listening"]
  /\ InitRest

\* Serving, in front of an empty cache.
InitEmpty ==
  /\ cache = [k \in CacheKeys |-> NoEntry]
  /\ ipc = [i \in Instances |-> "listening"]
  /\ InitRest

\* ------------------------------------------------------------- startServer
\* loadAzureSecrets: on failure the process exits, on success startServer
\* enters createTablesIfNeeded up to its await sql.connect. Instances are
\* interchangeable: they are numbered in the order they get here.
LoadAzureSecrets(i) ==
  /\ ipc[i] = "start"
  /\ \A j \in Instances : j < i => ipc[j] # "start"
  /\ \E connected \in BOOLEAN :
       ipc' = [ipc EXCEPT ![i] = IF connected THEN "schemaConnect" ELSE "exited"]
  /\ UNCHANGED <<now, cache, dbVars, ddlError, reqVars>>

\* createTablesIfNeeded, sql.connect resolved: the batch is sent.
SchemaConnectResolves(i) ==
  /\ ipc[i] = "schemaConnect"
  /\ ipc' = [ipc EXCEPT ![i] = "schemaIfNotExists"]
  /\ UNCHANGED <<now, cache, dbVars, ddlError, reqVars>>

\* createTablesIfNeeded, sql.connect rejected: the catch logs, the function
\* returns and startServer goes on to app.listen.
SchemaConnectRejects(i) ==
  /\ ipc[i] = "schemaConnect"
  /\ ipc' = [ipc EXCEPT ![i] = "listening"]
  /\ UNCHANGED <<now, cache, dbVars, ddlError, reqVars>>

\* The server evaluates IF NOT EXISTS (SELECT * FROM sysobjects ...). The
\* batch runs in no transaction and holds no lock between this test and the
\* CREATE TABLE that follows it.
SchemaIfNotExists(i) ==
  /\ ipc[i] = "schemaIfNotExists"
  /\ ipc' = [ipc EXCEPT ![i] = IF tableExists THEN "listening" ELSE "schemaCreate"]
  /\ UNCHANGED <<now, cache, dbVars, ddlError, reqVars>>

\* CREATE TABLE Payments (and its two indexes): fails if the table has
\* appeared since the test; the catch logs the error, then app.listen.
SchemaCreateTable(i) ==
  /\ ipc[i] = "schemaCreate"
  /\ ipc' = [ipc EXCEPT ![i] = "listening"]
  /\ IF tableExists
       THEN /\ ddlError' = [ddlError EXCEPT ![i] = TRUE]
            /\ UNCHANGED <<tableExists, tableCreates>>
       ELSE /\ tableExists' = TRUE
            /\ tableCreates' = tableCreates + 1
            /\ UNCHANGED ddlError
  /\ UNCHANGED <<now, cache, ledger, nextId, reqVars>>

\* ------------------------------------------------------ POST /api/payments
Serving == \E i \in Instances : ipc[i] = "listening"

\* Requests are interchangeable: they are numbered in order of arrival.
CanArrive(r) ==
  /\ pc[r] = "idle"
  /\ Serving
  /\ \A q \in Requests : q < r => pc[q] # "idle"

\* A parameter is missing: 400 at once.
ReceiveInvalid(r) ==
  /\ CanArrive(r)
  /\ \E b \in Bodies :
       /\ MissingParams(b)
       /\ body' = [body EXCEPT ![r] = b]
       /\ res' = [res EXCEPT ![r] = ParamsRequired]
       /\ pc' = [pc EXCEPT ![r] = "done"]
  /\ UNCHANGED <<now, cache, dbVars, bootVars, merchantValid, lookup, pending, ops,
                 rowsOf, sqlOutcome>>

\* Parameters present, redisClient?.isOpen false: the cache step is skipped,
\* merchantValid keeps its initial true, await sql.connect.
ReceiveCacheClosed(r) ==
  /\ CanArrive(r)
  /\ \E b \in Bodies :
       /\ ~MissingParams(b)
       /\ body' = [body EXCEPT ![r] = b]
  /\ lookup' = [lookup EXCEPT ![r] = "closed"]
  /\ pc' = [pc EXCEPT ![r] = "sqlConnect"]
  /\ UNCHANGED <<now, cache, dbVars, bootVars, merchantValid, pending, ops, rowsOf,
                 sqlOutcome, res>>

\* Parameters present, client open: await redisClient.get(cacheKey).
ReceiveCacheOpen(r) ==
  /\ CanArrive(r)
  /\ \E b \in Bodies :
       /\ ~MissingParams(b)
       /\ body' = [body EXCEPT ![r] = b]
  /\ ops' = [ops EXCEPT ![r].get = @ + 1]
  /\ pc' = [pc EXCEPT ![r] = "redisGet"]
  /\ UNCHANGED <<now, cache, dbVars, bootVars, merchantValid, lookup, pending, rowsOf,
                 sqlOutcome, res>>

\* get rejected: the inner catch warns and the handler continues without
\* the cache.
RedisGetRejects_Abort(r) ==
  /\ pc[r] = "redisGet"
  /\ lookup' = [lookup EXCEPT ![r] = "getError"]
  /\ res' = [res EXCEPT ![r] = PaymentError]
  /\ pc' = [pc EXCEPT ![r] = "done"]
  /\ UNCHANGED <<now, cache, dbVars, bootVars, body, merchantValid, pending, ops, rowsOf,
                 sqlOutcome>>

RedisGetRejects(r) ==
  /\ pc[r] = "redisGet"
  /\ lookup' = [lookup EXCEPT ![r] = "getError"]
  /\ pc' = [pc EXCEPT ![r] = "sqlConnect"]
  /\ UNCHANGED <<now, cache, dbVars, bootVars, body, merchantValid, pending, ops, rowsOf,
                 sqlOutcome, res>>

\* get resolved with null: the record is built and await setEx(key, 300, ...).
RedisGetMiss(r) ==
  /\ pc[r] = "redisGet"
  /\ RedisGet(cache, CacheKey(body[r].merchantId)) = <<>>
  /\ pending' = [pending EXCEPT ![r] = JSONStringify(NewMerchantRecord(now))]
  /\ ops' = [ops EXCEPT ![r].setEx = @ + 1]
  /\ lookup' = [lookup EXCEPT ![r] = "miss"]
  /\ pc' = [pc EXCEPT ![r] = "redisSetEx"]
  /\ UNCHANGED <<now, cache, dbVars, bootVars, body, merchantValid, rowsOf, sqlOutcome, res>>

\* get resolved with a string: JSON.parse it (a throw lands in the inner
\* catch), merchantValid = merchantData.valid, and 400 if that is falsy.
RedisGetHit_FailOpen(r) ==
  /\ pc[r] = "redisGet"
  /\ RedisGet(cache, CacheKey(body[r].merchantId)) # <<>>
  /\ LET cached == RedisGet(cache, CacheKey(body[r].merchantId))[1] IN
       IF JSONParseThrows(cached)
         THEN /\ lookup' = [lookup EXCEPT ![r] = "parseError"]
              /\ UNCHANGED merchantValid
         ELSE /\ merchantValid' = [merchantValid EXCEPT ![r] = JSONParse(cached).valid]
              /\ lookup' = [lookup EXCEPT ![r] = "hit"]
  /\ pc' = [pc EXCEPT ![r] = "sqlConnect"]
  /\ UNCHANGED <<now, cache, dbVars, bootVars, body, pending, ops, rowsOf, sqlOutcome, res>>

RedisGetHit_Rewrite(r) ==
  /\ pc[r] = "redisGet"
  /\ RedisGet(cache, CacheKey(body[r].merchantId)) # <<>>
  /\ LET cached == RedisGet(cache, CacheKey(body[r].merchantId))[1] IN
       /\ ~JSONParseThrows(cached)
       /\ merchantValid' = [merchantValid EXCEPT ![r] = JSONParse(cached).valid]
       /\ lookup' = [lookup EXCEPT ![r] = "hit"]
  /\ pending' = [pending EXCEPT ![r] = JSONStringify(NewMerchantRecord(now))]
  /\ ops' = [ops EXCEPT ![r].setEx = @ + 1]
  /\ pc' = [pc EXCEPT ![r] = "redisSetEx"]
  /\ UNCHANGED <<now, cache, dbVars, bootVars, body, rowsOf, sqlOutcome, res>>

RedisGetHit(r) ==
  /\ pc[r] = "redisGet"
  /\ RedisGet(cache, CacheKey(body[r].merchantId)) # <<>>
  /\ LET cached == RedisGet(cache, CacheKey(body[r].merchantId))[1] IN
       IF JSONParseThrows(cached)
         THEN /\ lookup' = [lookup EXCEPT ![r] = "parseError"]
              /\ pc' = [pc EXCEPT ![r] = "sqlConnect"]
              /\ UNCHANGED <<merchantValid, res>>
         ELSE /\ merchantValid' = [merchantValid EXCEPT ![r] = JSONParse(cached).valid]
              /\ lookup' = [lookup EXCEPT ![r] = "hit"]
              /\ IF Falsy(JSONParse(cached).valid)
                   THEN /\ res' = [res EXCEPT ![r] = MerchantInvalid(body[r].merchantId)]
                        /\ pc' = [pc EXCEPT ![r] = "done"]
                   ELSE /\ pc' = [pc EXCEPT ![r] = "sqlConnect"]
                        /\ UNCHANGED res
  /\ UNCHANGED <<now, cache, dbVars, bootVars, body, pending, ops, rowsOf, sqlOutcome>>

\* setEx resolved: the key holds the record for 300 seconds from now.
RedisSetExResolves(r) ==
  /\ pc[r] = "redisSetEx"
  /\ cache' = RedisSetEx(cache, CacheKey(body[r].merchantId), CACHE_TTL, pending[r], now)
  /\ pc' = [pc EXCEPT ![r] = "sqlConnect"]
  /\ UNCHANGED <<now, dbVars, bootVars, body, merchantValid, lookup, pending, ops, rowsOf,
                 sqlOutcome, res>>

\* setEx rejected: inner catch, continue without the cache.
RedisSetExRejects(r) ==
  /\ pc[r] = "redisSetEx"
  /\ lookup' = [lookup EXCEPT ![r] = "setError"]
  /\ pc' = [pc EXCEPT ![r] = "sqlConnect"]
  /\ UNCHANGED <<now, cache, dbVars, bootVars, body, merchantValid, pending, ops, rowsOf,
                 sqlOutcome, res>>

\* sql.connect resolved: the INSERT batch is sent.
SqlConnectResolves(r) ==
  /\ pc[r] = "sqlConnect"
  /\ ops' = [ops EXCEPT ![r].query = @ + 1]
  /\ pc' = [pc EXCEPT ![r] = "sqlQuery"]
  /\ UNCHANGED <<now, cache, dbVars, bootVars, body, merchantValid, lookup, pending, rowsOf,
                 sqlOutcome, res>>

\* sql.connect rejected: outer catch, 500.
SqlConnectRejects(r) ==
  /\ pc[r] = "sqlConnect"
  /\ sqlOutcome' = [sqlOutcome EXCEPT ![r] = "connectError"]
  /\ res' = [res EXCEPT ![r] = PaymentError]
  /\ pc' = [pc EXCEPT ![r] = "done"]
  /\ UNCHANGED <<now, cache, dbVars, bootVars, body, merchantValid, lookup, pending, ops,
                 rowsOf>>

\* The batch ran: one row inserted, SCOPE_IDENTITY() is its PaymentId, 201.
QueryResolves_NoInsert(r) ==
  /\ pc[r] = "sqlQuery"
  /\ tableExists
  /\ sqlOutcome' = [sqlOutcome EXCEPT ![r] = "inserted"]
  /\ res' = [res EXCEPT ![r] = PaymentCreated(nextId, body[r].merchantId)]
  /\ pc' = [pc EXCEPT ![r] = "done"]
  /\ UNCHANGED <<now, cache, dbVars, bootVars, body, merchantValid, lookup, pending, ops,
                 rowsOf>>

QueryResolves(r) ==
  /\ pc[r] = "sqlQuery"
  /\ tableExists
  /\ ledger' = Append(ledger, PaymentRow(nextId, body[r], now))
  /\ nextId' = nextId + 1
  /\ rowsOf' = [rowsOf EXCEPT ![r] = @ \cup {nextId}]
  /\ sqlOutcome' = [sqlOutcome EXCEPT ![r] = "inserted"]
  /\ res' = [res EXCEPT ![r] = PaymentCreated(nextId, body[r].merchantId)]
  /\ pc' = [pc EXCEPT ![r] = "done"]
  /\ UNCHANGED <<now, cache, tableExists, tableCreates, bootVars, body, merchantValid,
                 lookup, pending, ops>>

\* The batch failed (no table, store unreachable, timeout): no row, outer
\* catch, 500.
QueryRejects_Created(r) ==
  /\ pc[r] = "sqlQuery"
  /\ sqlOutcome' = [sqlOutcome EXCEPT ![r] = "queryError"]
  /\ res' = [res EXCEPT ![r] = PaymentCreated(nextId, body[r].merchantId)]
  /\ pc' = [pc EXCEPT ![r] = "done"]
  /\ UNCHANGED <<now, cache, dbVars, bootVars, body, merchantValid, lookup, pending, ops,
                 rowsOf>>

QueryRejects(r) ==
  /\ pc[r] = "sqlQuery"
  /\ sqlOutcome' = [sqlOutcome EXCEPT ![r] = "queryError"]
  /\ res' = [res EXCEPT ![r] = PaymentError]
  /\ pc' = [pc EXCEPT ![r] = "done"]
  /\ UNCHANGED <<now, cache, dbVars, bootVars, body, merchantValid, lookup, pending, ops,
                 rowsOf>>

\* ------------------------------------------------------------ environment
\* Time passes; keys whose time to live has elapsed are gone.
Tick ==
  /\ now + TickSeconds <= MaxClock
  /\ now' = now + TickSeconds
  /\ cache' = RedisExpire(cache, now + TickSeconds)
  /\ UNCHANGED <<dbVars, bootVars, reqVars>>

\* Startup of the instances, which share the database.
NextSchema ==
  \/ \E i \in Instances : LoadAzureSecrets(i)
  \/ \E i \in Instances : SchemaConnectResolves(i)
  \/ \E i \in Instances : SchemaConnectRejects(i)
  \/ \E i \in Instances : SchemaIfNotExists(i)
  \/ \E i \in Instances : SchemaCreateTable(i)

\* Request handling. The handler meets the startup only through the table a
\* query needs, and a query may fail in any state, so handling requests while
\* another instance still starts adds no behaviour of the handler to these.
Next ==
  \/ \E r \in Requests : ReceiveInvalid(r)
  \/ \E r \in Requests : ReceiveCacheClosed(r)
  \/ \E r \in Requests : ReceiveCacheOpen(r)
  \/ \E r \in Requests : RedisGetRejects(r)
  \/ \E r \in Requests : RedisGetMiss(r)
  \/ \E r \in Requests : RedisGetHit(r)
  \/ \E r \in Requests : RedisSetExResolves(r)
  \/ \E r \in Requests : RedisSetExRejects(r)
  \/ \E r \in Requests : SqlConnectResolves(r)
  \/ \E r \in Requests : SqlConnectRejects(r)
  \/ \E r \in Requests : QueryResolves(r)
  \/ \E r \in Requests : QueryRejects(r)
  \/ Tick

Spec == Init /\ [][Next]_vars
SpecEmpty == InitEmpty /\ [][Next]_vars
SpecSchema == InitSchema /\ [][NextSchema]_vars

\* ================================================================ claims
Created(r) == res[r].status = HTTP_CREATED
Completed(r) == pc[r] = "done"
\* A field of the body is missing or empty.
Incomplete(b) == \E v \in {b.amount, b.currency, b.merchantId} : v \in {"undefined", ""}
RowsWithId(id) == {i \in DOMAIN ledger : ledger[i].PaymentId = id}
CacheFailures == {"closed", "getError", "setError"}
SqlFailures == {"connectError", "queryError"}
HoldsValidity(k, v) == cache[k].present /\ cache[k].value.json /\ cache[k].value.valid = v

\* C1: a 201 response is sent only once the request's insert has completed; the
\* request has inserted exactly one row, the ledger holds exactly one row with
\* the returned paymentId, and that row carries the request's fields.
C1_CreatedHasItsRow ==
  \A r \in Requests :
    Created(r) =>
      /\ sqlOutcome[r] = "inserted"
      /\ rowsOf[r] = {res[r].paymentId}
      /\ Cardinality(RowsWithId(res[r].paymentId)) = 1
      /\ \A i \in RowsWithId(res[r].paymentId) :
           /\ ledger[i].Amount = body[r].amount
           /\ ledger[i].Currency = body[r].currency
           /\ ledger[i].MerchantId = body[r].merchantId
           /\ ledger[i].Status = "COMPLETED"

\* Two requests have both been answered 201, with different paymentIds.
C1_Witness ==
  \E r, q \in Requests :
    /\ Created(r) /\ Created(q)
    /\ res[r].paymentId # res[q].paymentId

\* C2: the step that receives a request with a missing or empty amount,
\* currency or merchantId answers 400 "parameters required" and finishes the
\* request, having issued no cache read, no cache write and no query, and
\* leaves the cache and the ledger as they were.
C2_IncompleteRejectedBeforeIO ==
  [][\A r \in Requests :
       (pc[r] = "idle" /\ pc'[r] # "idle" /\ Incomplete(body'[r])) =>
         /\ pc'[r] = "done"
         /\ res'[r] = ParamsRequired
         /\ ops'[r] = NoOps
         /\ rowsOf'[r] = {}
         /\ cache' = cache
         /\ ledger' = ledger
         /\ nextId' = nextId]_vars

\* Both requests were incomplete, in different ways, and both got the 400.
C2_Witness ==
  \E r, q \in Requests :
    /\ Completed(r) /\ Completed(q)
    /\ Falsy(body[r].amount) /\ Falsy(body[q].merchantId)
    /\ res[r] = ParamsRequired /\ res[q] = ParamsRequired

\* C3 as stated: whenever the cache holds a valid=false record for the
\* merchant of a finished request with complete parameters, that request was
\* rejected as merchant-invalid and wrote nothing to the ledger. (Nothing
\* ever writes a valid=false record, so one held now was held all along.)
C3_Original ==
  \A r \in Requests :
    (Completed(r) /\ ~Incomplete(body[r])
       /\ HoldsValidity(CacheKey(body[r].merchantId), "false")) =>
      /\ res[r] = MerchantInvalid(body[r].merchantId)
      /\ rowsOf[r] = {}

\* C3 amended: when the lookup of a request returns a record whose valid is
\* false, the request ends with 400 "merchant invalid" carrying the merchant
\* identifier, and has issued no cache write and no query: no ledger row.
C3_HitInvalidRejected ==
  \A r \in Requests :
    (lookup[r] = "hit" /\ Falsy(merchantValid[r])) =>
      /\ Completed(r)
      /\ res[r] = MerchantInvalid(body[r].merchantId)
      /\ ops[r].setEx = 0
      /\ ops[r].query = 0
      /\ rowsOf[r] = {}
      /\ sqlOutcome[r] = "none"

\* A lookup returned valid=false and the request got the merchant's 400.
C3_Witness ==
  \E r \in Requests :
    /\ lookup[r] = "hit" /\ merchantValid[r] = "false"
    /\ res[r].status = HTTP_BAD_REQUEST /\ res[r].merchantId = "M1"

\* C4 as stated, for a request whose ledger write did not fail: a request
\* whose lookup missed succeeds, and from then until 300 seconds later the
\* cache holds a valid=true record for its merchant.
C4_Original ==
  \A r \in Requests :
    (lookup[r] \in {"miss", "setError"} /\ Completed(r) /\ sqlOutcome[r] \notin SqlFailures) =>
      /\ Created(r)
      /\ now < pending[r].checkedAt + CACHE_TTL =>
           HoldsValidity(CacheKey(body[r].merchantId), "true")

\* C4 amended: a request whose lookup missed is never rejected as
\* merchant-invalid and, once finished, has succeeded exactly when its ledger
\* write succeeded; and once its cache write has succeeded, the cache holds a
\* valid=true record for its merchant until 300 seconds have passed.
C4_MissTrustedAndCached ==
  \A r \in Requests :
    /\ lookup[r] \in {"miss", "setError"} =>
         /\ merchantValid[r] = "true"
         /\ res[r].status # HTTP_BAD_REQUEST
         /\ Completed(r) => (Created(r) <=> sqlOutcome[r] = "inserted")
    /\ (lookup[r] = "miss" /\ pc[r] \in {"sqlConnect", "sqlQuery", "done"}
          /\ now < pending[r].checkedAt + CACHE_TTL) =>
         HoldsValidity(CacheKey(body[r].merchantId), "true")

\* A request missed, wrote its record and succeeded; time has passed and the
\* record is still there.
C4_Witness ==
  \E r \in Requests :
    /\ lookup[r] = "miss" /\ Created(r)
    /\ now > pending[r].checkedAt
    /\ HoldsValidity(CacheKey(body[r].merchantId), "true")

\* C5: a request that found the cache closed, or whose get or setEx failed,
\* goes on to the ledger step: it is never answered 400, it is answered only
\* once the ledger step has had its outcome, 201 if the insert succeeded and
\* 500 only if the ledger step failed.
C5_CacheFailureAbsorbed ==
  \A r \in Requests :
    lookup[r] \in CacheFailures =>
      /\ pc[r] \in {"sqlConnect", "sqlQuery", "done"}
      /\ res[r].status # HTTP_BAD_REQUEST
      /\ Completed(r) =>
           /\ sqlOutcome[r] # "none"
           /\ sqlOutcome[r] = "inserted" => Created(r)
           /\ res[r].status = HTTP_SERVER_ERROR => sqlOutcome[r] \in SqlFailures

\* One request's get failed, another's setEx failed, and both got 201.
C5_Witness ==
  \E r, q \in Requests :
    /\ lookup[r] = "getError" /\ Created(r)
    /\ lookup[q] = "setError" /\ Created(q)

\* C6: a request whose sql.connect or query failed is answered 500 with the
\* payment error and has inserted no row, whatever its cache step did; every
\* row of the ledger was inserted by a request whose query succeeded.
C6_LedgerFailureSurfaced ==
  /\ \A r \in Requests :
       sqlOutcome[r] \in SqlFailures =>
         /\ Completed(r)
         /\ res[r] = PaymentError
         /\ rowsOf[r] = {}
  /\ \A i \in DOMAIN ledger :
       \E r \in Requests : sqlOutcome[r] = "inserted" /\ rowsOf[r] = {ledger[i].PaymentId}

\* The query failed for a request that hit a valid record and for a request
\* that missed; both got 500 and the ledger is empty.
C6_Witness ==
  \E r, q \in Requests :
    /\ lookup[r] = "hit" /\ sqlOutcome[r] = "queryError"
    /\ lookup[q] = "miss" /\ sqlOutcome[q] = "queryError"
    /\ res[r].status = HTTP_SERVER_ERROR /\ res[q].status = HTTP_SERVER_ERROR
    /\ ledger = <<>>

\* C7: a request issues at most one setEx and at most one query and inserts
\* at most one row; it issues the setEx exactly when its get returned null,
\* and none after a hit, a failed get, an unparsable value or a closed client.
C7_AtMostOneWriteEach ==
  \A r \in Requests :
    /\ ops[r].get <= 1
    /\ ops[r].setEx <= 1
    /\ ops[r].query <= 1
    /\ Cardinality(rowsOf[r]) <= ops[r].query
    /\ ops[r].setEx = 1 <=> lookup[r] \in {"miss", "setError"}
    /\ lookup[r] \in {"hit", "parseError", "getError", "closed", "none"} => ops[r].setEx = 0
    /\ pc[r] = "redisSetEx" => lookup[r] = "miss"

\* One finished request hit and wrote nothing to the cache, another missed
\* and wrote once; each inserted one row.
C7_Witness ==
  \E r, q \in Requests :
    /\ Created(r) /\ lookup[r] = "hit" /\ ops[r] = [get |-> 1, setEx |-> 0, query |-> 1]
    /\ Created(q) /\ lookup[q] = "miss" /\ ops[q] = [get |-> 1, setEx |-> 1, query |-> 1]

\* C8: no invocation of createTablesIfNeeded hits a duplicate-table error,
\* and the table is never created twice.
C8_NoDuplicateTable ==
  /\ \A i \in Instances : ~ddlError[i]
  /\ tableCreates <= 1

\* C9 as stated: a record that is in the cache and has not expired is left
\* exactly as it is by every step.
C9_Original ==
  [][\A k \in CacheKeys :
       (cache[k].present /\ cache[k].expiresAt > now') => cache'[k] = cache[k]]_vars

\* C9 amended: the step in which a lookup returns a value never changes the
\* cache and issues no write. A record that has not expired is replaced only
\* by the completing setEx of a request whose own lookup had missed; the
\* replacement is again valid=true with checkCount 1, and expires 300 seconds
\* after the replacing write.
C9_OnlyRacingMissesOverwrite ==
  [][/\ \A r \in Requests :
          (pc[r] = "redisGet" /\ lookup'[r] \in {"hit", "parseError"}) =>
            (cache' = cache /\ ops'[r].setEx = 0 /\ pc'[r] # "redisSetEx")
     /\ \A k \in CacheKeys :
          (cache[k].present /\ cache[k].expiresAt > now' /\ cache'[k] # cache[k]) =>
            \E r \in Requests :
              /\ pc[r] = "redisSetEx" /\ pc'[r] = "sqlConnect"
              /\ lookup[r] = "miss"
              /\ k = CacheKey(body[r].merchantId)
              /\ cache'[k] = Entry(pending[r], now + CACHE_TTL)
              /\ pending[r].valid = "true" /\ pending[r].checkCount = 1]_vars

\* Two requests for one merchant both missed and both wrote; the record now
\* in the cache is the second one's, and differs from the first one's.
C9_Witness ==
  \E r, q \in Requests :
    /\ r # q /\ body[r].merchantId = body[q].merchantId
    /\ lookup[r] = "miss" /\ lookup[q] = "miss"
    /\ pc[r] = "done" /\ pc[q] = "sqlConnect"
    /\ pending[r] # pending[q]
    /\ cache[CacheKey(body[q].merchantId)] = Entry(pending[q], now + CACHE_TTL)

\* C10: from an empty cache, every record in the cache and every record about
\* to be written carries valid=true, every request sees its merchant as
\* valid, and no request is answered "merchant invalid".
C10_NeverRejected ==
  /\ \A k \in CacheKeys : cache[k].present => (cache[k].value.json /\ cache[k].value.valid = "true")
  /\ \A r \in Requests :
       /\ pc[r] = "redisSetEx" => pending[r].valid = "true"
       /\ merchantValid[r] = "true"
       /\ res[r].error # MerchantInvalid("M1").error

\* Two requests for one merchant both missed, both wrote their record and
\* both succeeded; the cache holds the valid=true record of the later write.
C10_Witness ==
  \E r, q \in Requests :
    /\ r # q /\ body[r].merchantId = body[q].merchantId
    /\ lookup[r] = "miss" /\ lookup[q] = "miss"
    /\ Created(r) /\ Created(q)
    /\ HoldsValidity(CacheKey(body[r].merchantId), "true")

====
